---- MODULE Spec2Model ----
(***************************************************************************)
(* Embedded-ControlHub: the two I2C peers of the hub.                      *)
(*                                                                         *)
(*  - the actuator board (Executor.ino, src/unnamed/part_001): a main loop *)
(*    that executes text commands, and the two Wire callbacks              *)
(*    onI2CReceive / onI2CRequest, which run as interrupt handlers and may *)
(*    therefore run between any two steps of the main loop, and inside a   *)
(*    library call of handleCommand that scans i2cCmd or fills i2cResp;    *)
(*  - the sensor hub (src/ESP32/SensorsWeb/SensorsWeb.ino): FreeRTOS tasks *)
(*    sharing one record behind dataMutex, and the I2C request callback.   *)
(*                                                                         *)
(* Texts are sequences of one-character strings, so that strlen, strncmp,  *)
(* atoi, snprintf, strncpy and strncat are computed as the C library       *)
(* computes them.  The actuator is an Arduino UNO: int is 16 bits wide.    *)
(***************************************************************************)
EXTENDS Integers, Sequences, FiniteSets, TLC

\* ------------------------------------------------------------------ bounds

\* Commands the master writes to the actuator in one run.
MaxCmds == 2
\* Saturation of the count of button presses detected between two reads.
MaxPresses == 2
\* Advances of the sensor hub's millisecond clock in one run.
MaxTicks == 2
\* Operator lines the master receives in one run.
MaxLines == 3
\* Poll ticks that elapse in one run.
MaxPolls == 2

\* ----------------------------------------------------------- C text helpers

I2C_BUF == 32

NUL == "NUL"
HIGH == TRUE
LOW == FALSE

Digits == <<"0", "1", "2", "3", "4", "5", "6", "7", "8", "9">>

IsDigit(c) == \E d \in 1..10 : Digits[d] = c

DigitVal(c) == (CHOOSE d \in 1..10 : Digits[d] = c) - 1

MinOf(S) == CHOOSE x \in S : \A y \in S : x <= y

Take(s, n) == SubSeq(s, 1, IF n < Len(s) THEN (IF n < 0 THEN 0 ELSE n) ELSE Len(s))

\* The C string that starts at buf + off: the characters before the first NUL.
CStr(buf, off) ==
    LET nuls == {i \in (off + 1)..Len(buf) : buf[i] = NUL}
        end == IF nuls = {} THEN Len(buf) ELSE MinOf(nuls) - 1
    IN  SubSeq(buf, off + 1, end)

\* strncmp(s, lit, n) == 0, s a C string.
strncmpEq(s, lit, n) == Take(s, n) = Take(lit, n)

\* strcmp(s, lit) == 0, s a C string.
strcmpEq(s, lit) == s = lit

\* A 16-bit int: the value of the low 16 bits, two's complement.
ToInt16(x) ==
    LET m == x % 65536
    IN  IF m >= 32768 THEN m - 65536 ELSE m

\* The vertical tab, which has no escape in a string here.
VT == "VT"

\* isspace in the C locale: space, \t, \n, \v, \f, \r.
IsSpace(c) == c \in {" ", "\t", "\n", VT, "\f", "\r"}

RECURSIVE SkipSpace(_, _)
SkipSpace(s, i) ==
    IF i <= Len(s) /\ IsSpace(s[i]) THEN SkipSpace(s, i + 1) ELSE i

RECURSIVE AtoiDigits(_, _, _)
AtoiDigits(s, i, acc) ==
    IF i <= Len(s) /\ IsDigit(s[i])
    THEN AtoiDigits(s, i + 1, (acc * 10 + DigitVal(s[i])) % 65536)
    ELSE acc

\* atoi on a 16-bit target: leading white space, an optional sign, then digits up to
\* the first other character; no overflow check, the accumulator wraps.
atoi(s) ==
    LET i0  == SkipSpace(s, 1)
        neg == i0 <= Len(s) /\ s[i0] = "-"
        i1  == IF i0 <= Len(s) /\ (s[i0] = "-" \/ s[i0] = "+") THEN i0 + 1 ELSE i0
        mag == AtoiDigits(s, i1, 0)
    IN  ToInt16(IF neg THEN 0 - mag ELSE mag)

constrain(x, lo, hi) == IF x < lo THEN lo ELSE IF x > hi THEN hi ELSE x

RECURSIVE DecNat(_)
DecNat(n) ==
    IF n < 10 THEN <<Digits[n + 1]>>
    ELSE DecNat(n \div 10) \o <<Digits[(n % 10) + 1]>>

\* printf's %d.
Dec(n) == IF n < 0 THEN <<"-">> \o DecNat(0 - n) ELSE DecNat(n)

\* ------------------------------------------------------------ string literals

T_SERVO_SET == <<"S", "E", "R", "V", "O", " ", "S", "E", "T">>
T_STEPPER_MOVE == <<"S", "T", "E", "P", "P", "E", "R", " ", "M", "O", "V", "E">>
T_RELAY_ON == <<"R", "E", "L", "A", "Y", " ", "O", "N">>
T_RELAY_OFF == <<"R", "E", "L", "A", "Y", " ", "O", "F", "F">>
T_STATUS == <<"S", "T", "A", "T", "U", "S">>
T_READY == <<"R", "E", "A", "D", "Y">>
T_OK_SERVO == <<"O", "K", " ", "S", "E", "R", "V", "O">>
T_STEPPER_BUSY == <<"S", "T", "E", "P", "P", "E", "R", " ", "B", "U", "S", "Y">>
T_OK_STEPPER == <<"O", "K", " ", "S", "T", "E", "P", "P", "E", "R">>
T_OK_RELAY_ON == <<"O", "K", " ", "R", "E", "L", "A", "Y", " ", "O", "N">>
T_OK_RELAY_OFF == <<"O", "K", " ", "R", "E", "L", "A", "Y", " ", "O", "F", "F">>
T_ERR_CMD == <<"E", "R", "R", " ", "C", "M", "D">>
T_BTN_PRESSED == <<" ", "+", "B", "T", "N", " ", "P", "R", "E", "S", "S", "E", "D">>
F_SERVO == <<"S", "E", "R", "V", "O", "=">>
F_RELAY == <<" ", "R", "E", "L", "A", "Y", "=">>
F_STEPPER == <<" ", "S", "T", "E", "P", "P", "E", "R", "=">>
F_ON == <<"O", "N">>
F_OFF == <<"O", "F", "F">>
F_T == <<"T", "=">>
F_H == <<" ", "H", "=">>
F_P == <<" ", "P", "=">>
F_C == <<" ", "C", "=">>

\* ------------------------------------------------------------------- state

VARIABLES
    \* actuator (Executor.ino)
    cmdReady,       \* volatile bool cmdReady
    i2cCmd,         \* char i2cCmd[I2C_BUF], all 32 bytes
    i2cResp,        \* char i2cResp[I2C_BUF], all 32 bytes
    servoPos,       \* int servoPos
    stepperPos,     \* int stepperPos
    relayState,     \* bool relayState
    btnEvent,       \* bool btnEvent
    lastState,      \* handleButton's static lastState
    pc,             \* position of the main loop
    steps,          \* handleCommand's local steps (0 outside its scope)
    \* the bus, seen from the master
    wire,           \* the bytes of the last response frame the actuator wrote
    sent,           \* commands written so far
    \* history, for the statements about the button
    presses,        \* presses detected since the last read request (saturating)
    lastReadPresses, \* presses at the moment of the last read request
    \* the record of a master that waits for each command's execution
    script,         \* the commands it wrote, in order
    acks            \* the frame it read after each of them

VARIABLES
    \* sensor hub (SensorsWeb.ino)
    hsetup,         \* position of setup()
    clock,          \* millis()
    ticks,          \* advances of the clock so far
    dataMutex,      \* "null" before creation, "free", or the task holding it
    data,           \* SensorData data
    last_event,     \* unsigned long last_event
    sensorPc,       \* position of SensorTask
    reading,        \* SensorTask's locals h, t, p
    soundPc,        \* position of SoundTask
    webPc,          \* position of handleStatus in WebTask
    json,           \* what handleStatus last sent
    hi2cPc,         \* position of the hub's onI2CRequest
    now,            \* onI2CRequest's local now
    hubResp,        \* the hub's char i2cResp[I2C_BUF], all 32 bytes
    hubWire,        \* the bytes the hub wrote for the request in progress
    \* history, for the statements about the claps
    wraps,          \* the times millis() has wrapped to 0 so far
    clapEra         \* wraps, when lastClapMs was last stored

hvars == <<hsetup, clock, ticks, dataMutex, data, last_event,
           sensorPc, reading, soundPc, webPc, json, hi2cPc, now, hubResp,
           hubWire, wraps, clapEra>>

VARIABLES
    \* the button wired to BUTTON_PIN (INPUT_PULLUP: HIGH while released)
    pin,            \* the level digitalRead(BUTTON_PIN) returns
    swung,          \* the level has changed since handleButton last read it
    owed,           \* a press no read request has reported yet
    \* history, for the statements about the order of execution
    executed        \* what each call of handleCommand did, in order

evars == <<pin, swung, owed, executed>>

VARIABLES
    \* the master's orchestrator (STM32)
    pollState,      \* PollState: enabled, interval, last (the last poll tick)
    opQueue,        \* operator lines received and not yet handled
    opOut,          \* lines emitted to the operator: producer, mark, text
    routerPc,       \* position of the Router
    routerCmd,      \* the command the Router is routing
    pollerPc,       \* position of the Poller
    busOwner,       \* who holds the Bus Transport: "none", "router", "poller"
    busFrame,       \* producer of each byte of the frame write in progress
    linesIn,        \* operator lines received so far
    polls,          \* poll ticks elapsed so far
    routed,         \* commands the Router has routed to a peer so far
    txns            \* bus transactions the Router has started so far

stmvars == <<pollState, opQueue, opOut, routerPc, routerCmd, pollerPc,
             busOwner, busFrame, linesIn, polls, routed, txns>>

avars == <<cmdReady, i2cCmd, i2cResp, servoPos, stepperPos, relayState,
           btnEvent, lastState, pc, steps, wire, sent, presses, lastReadPresses>>

mvars == <<script, acks>>

vars == <<avars, mvars, hvars, evars, stmvars>>

\* ---------------------------------------------------- the master's commands

ServoSetCmd(arg) == T_SERVO_SET \o <<" ">> \o arg

StepperMoveCmd(arg) == T_STEPPER_MOVE \o <<" ">> \o arg

\* 2^32 + 90: wraps to 90 in a 16-bit and in a 32-bit accumulator alike.
A_HUGE == <<"4", "2", "9", "4", "9", "6", "7", "3", "8", "6">>
A_abc == <<"a", "b", "c">>
A_TAB45 == <<"\t", "4", "5">>
C_relay_on_lower == <<"r", "e", "l", "a", "y", " ", "o", "n">>

ServoArgs == {Dec(45), Dec(200), Dec(0 - 5), A_HUGE, A_abc, A_TAB45}

StepArgs == {Dec(512), Dec(0 - 1000)}

Commands ==
    {ServoSetCmd(a) : a \in ServoArgs}
        \cup {StepperMoveCmd(a) : a \in StepArgs}
        \cup {T_RELAY_ON, T_RELAY_OFF, T_STATUS, T_SERVO_SET, C_relay_on_lower}

\* ------------------------------------------------------------ the actuator

\* strcpy(buf, text), and snprintf(buf, I2C_BUF, ...) of a text that fits:
\* the characters, then the terminator; the rest of the buffer keeps its bytes.
StoreText(buf, text) ==
    [i \in 1..I2C_BUF |->
        IF i <= Len(text) THEN text[i]
        ELSE IF i = Len(text) + 1 THEN NUL ELSE buf[i]]

InitActuator ==
    /\ cmdReady = FALSE
    /\ i2cCmd = [i \in 1..I2C_BUF |-> NUL]
    /\ i2cResp = StoreText([i \in 1..I2C_BUF |-> NUL], T_READY)
    /\ servoPos = 90
    /\ stepperPos = 0
    /\ relayState = FALSE
    /\ btnEvent = FALSE
    /\ lastState = HIGH
    /\ pc = "loop"
    /\ steps = 0
    /\ wire = <<>>
    /\ sent = 0
    /\ presses = 0
    /\ lastReadPresses = 0
    /\ script = <<>>
    /\ acks = <<>>

\* onI2CReceive: the bytes of one write transaction, at most I2C_BUF - 1 of
\* them stored, then the terminator; the rest of the buffer keeps its bytes.
ReceiveInto(buf, bytes) ==
    LET n == IF Len(bytes) < I2C_BUF - 1 THEN Len(bytes) ELSE I2C_BUF - 1
    IN  [i \in 1..I2C_BUF |->
            IF i <= n THEN bytes[i] ELSE IF i = n + 1 THEN NUL ELSE buf[i]]

onI2CReceive(bytes) ==
    /\ sent < MaxCmds
    /\ i2cCmd' = ReceiveInto(i2cCmd, bytes)
    /\ cmdReady' = TRUE
    /\ sent' = sent + 1
    /\ UNCHANGED <<i2cResp, servoPos, stepperPos, relayState, btnEvent,
                   lastState, pc, steps, wire, presses, lastReadPresses>>

\* strncpy(tmpResp, i2cResp, I2C_BUF - 1), then the strncat of the marker,
\* limited to I2C_BUF - strlen(tmpResp) - 1 characters.
ResponseText(resp, ev) ==
    LET tmpResp == Take(resp, I2C_BUF - 1)
    IN  IF ev
        THEN tmpResp \o Take(T_BTN_PRESSED, I2C_BUF - Len(tmpResp) - 1)
        ELSE tmpResp

\* Wire.write(tmpResp, strlen(tmpResp) + 1): the text and its terminator.
ResponseFrame(resp, ev) == ResponseText(resp, ev) \o <<NUL>>

\* btnEvent = false, in the branch that appended the marker
KeepEvent(ev) == ev

ClearEvent(ev) == FALSE

\* The marker is appended to tmpResp, a copy: i2cResp is not written.
MarkerStored(resp, ev) == StoreText(resp, ResponseText(CStr(resp, 0), ev))

StoredAfterRequest(resp, ev) == resp

onI2CRequest ==
    /\ wire' = ResponseFrame(CStr(i2cResp, 0), btnEvent)
    /\ i2cResp' = StoredAfterRequest(i2cResp, btnEvent)
    /\ btnEvent' = IF btnEvent THEN ClearEvent(btnEvent) ELSE btnEvent
    /\ lastReadPresses' = presses
    /\ presses' = 0
    /\ UNCHANGED <<cmdReady, i2cCmd, servoPos, stepperPos, relayState,
                   lastState, pc, steps, sent>>

\* snprintf(i2cResp, I2C_BUF, "SERVO=%d RELAY=%s STEPPER=%d", ...): the whole
\* line, and what fits the buffer.
StatusLine(servo, relay, stepper) ==
    F_SERVO \o Dec(servo) \o F_RELAY \o (IF relay THEN F_ON ELSE F_OFF)
        \o F_STEPPER \o Dec(stepper)

StatusText(servo, relay, stepper) ==
    Take(StatusLine(servo, relay, stepper), I2C_BUF - 1)

\* A step of the main loop during which no callback runs leaves alone what
\* only the callbacks write.
NoReceive == UNCHANGED <<i2cCmd, cmdReady, sent>>

NoRequest == UNCHANGED <<wire, btnEvent, presses, lastReadPresses>>

\* loop(): if (cmdReady)
LoopCheck ==
    /\ pc = "loop"
    /\ pc' = IF cmdReady THEN "clear" ELSE "button"
    /\ UNCHANGED <<i2cResp, servoPos, stepperPos, relayState, lastState, steps>>
    /\ NoReceive
    /\ NoRequest

\* loop(): cmdReady = false; then handleCommand() is entered
LoopClear ==
    /\ pc = "clear"
    /\ cmdReady' = FALSE
    /\ pc' = "hc_servo"
    /\ UNCHANGED <<i2cCmd, sent, i2cResp, servoPos, stepperPos, relayState,
                   lastState, steps>>
    /\ NoRequest

\* The steps of handleCommand, one library call each.  A step that scans
\* i2cCmd takes the bytes its call reads; no step says anything of what the
\* callbacks own.

\* handleCommand: strncmp(i2cCmd, "SERVO SET", 9) == 0
HcServoTest(cmd) ==
    /\ pc = "hc_servo"
    /\ pc' = IF strncmpEq(CStr(cmd, 0), T_SERVO_SET, 9)
             THEN "hc_servo_do" ELSE "hc_stepper"
    /\ UNCHANGED <<i2cResp, servoPos, stepperPos, relayState, lastState, steps>>

\* servoPos = constrain(atoi(i2cCmd + 10), 0, 180)
ServoTarget(buf) == constrain(atoi(CStr(buf, 10)), 0, 180)

\* constrain is a macro, ((amt)<(low)?(low):((amt)>(high)?(high):(amt))): its
\* argument atoi(i2cCmd + 10) is written three times.  A build that merges
\* the calls makes one scan of the buffer (HcServoDo); one that does not
\* scans it at each of them (HcServoLo, HcServoHi, HcServoVal).
HcServoDo(cmd) ==
    /\ pc = "hc_servo_do"
    /\ servoPos' = ServoTarget(cmd)
    /\ pc' = "hc_servo_ack"
    /\ UNCHANGED <<i2cResp, stepperPos, relayState, lastState, steps>>

\* (amt) < (low) ? (low) : ...
HcServoLo(cmd) ==
    /\ pc = "hc_servo_do"
    /\ IF atoi(CStr(cmd, 10)) < 0
       THEN servoPos' = 0 /\ pc' = "hc_servo_ack"
       ELSE servoPos' = servoPos /\ pc' = "hc_servo_hi"
    /\ UNCHANGED <<i2cResp, stepperPos, relayState, lastState, steps>>

\* (amt) > (high) ? (high) : ...
HcServoHi(cmd) ==
    /\ pc = "hc_servo_hi"
    /\ IF atoi(CStr(cmd, 10)) > 180
       THEN servoPos' = 180 /\ pc' = "hc_servo_ack"
       ELSE servoPos' = servoPos /\ pc' = "hc_servo_val"
    /\ UNCHANGED <<i2cResp, stepperPos, relayState, lastState, steps>>

\* ... : (amt)
HcServoVal(cmd) ==
    /\ pc = "hc_servo_val"
    /\ servoPos' = atoi(CStr(cmd, 10))
    /\ pc' = "hc_servo_ack"
    /\ UNCHANGED <<i2cResp, stepperPos, relayState, lastState, steps>>

\* servo.write(servoPos); strcpy(i2cResp, "OK SERVO")
HcServoAck ==
    /\ pc = "hc_servo_ack"
    /\ i2cResp' = StoreText(i2cResp, T_OK_SERVO)
    /\ pc' = "button"
    /\ UNCHANGED <<servoPos, stepperPos, relayState, lastState, steps>>

\* strncmp(i2cCmd, "STEPPER MOVE", 12) == 0
HcStepperTest(cmd) ==
    /\ pc = "hc_stepper"
    /\ pc' = IF strncmpEq(CStr(cmd, 0), T_STEPPER_MOVE, 12)
             THEN "hc_stepper_busy" ELSE "hc_relay_on"
    /\ UNCHANGED <<i2cResp, servoPos, stepperPos, relayState, lastState, steps>>

\* strcpy(i2cResp, "STEPPER BUSY")
HcStepperBusy ==
    /\ pc = "hc_stepper_busy"
    /\ i2cResp' = StoreText(i2cResp, T_STEPPER_BUSY)
    /\ pc' = "hc_stepper_arg"
    /\ UNCHANGED <<servoPos, stepperPos, relayState, lastState, steps>>

\* int steps = atoi(i2cCmd + 13)
HcStepperArg(cmd) ==
    /\ pc = "hc_stepper_arg"
    /\ steps' = atoi(CStr(cmd, 13))
    /\ pc' = "hc_stepper_step"
    /\ UNCHANGED <<i2cResp, servoPos, stepperPos, relayState, lastState>>

\* stepper.step(steps): the call returns when the motor has made its steps.
\* The main loop is at this call for as long as the motor turns, and the
\* callbacks run meanwhile; the call reads nothing of what they write.
HcStepperStep ==
    /\ pc = "hc_stepper_step"
    /\ pc' = "hc_stepper_done"
    /\ UNCHANGED <<i2cResp, servoPos, stepperPos, relayState, lastState, steps>>

\* stepperPos += steps; strcpy(i2cResp, "OK STEPPER")
StepperSum(pos, k) == ToInt16(pos + k)

HcStepperDone ==
    /\ pc = "hc_stepper_done"
    /\ stepperPos' = StepperSum(stepperPos, steps)
    /\ i2cResp' = StoreText(i2cResp, T_OK_STEPPER)
    /\ pc' = "button"
    /\ steps' = 0
    /\ UNCHANGED <<servoPos, relayState, lastState>>

\* strcmp(i2cCmd, "RELAY ON") == 0
HcRelayOn(cmd) ==
    /\ pc = "hc_relay_on"
    /\ pc' = IF strcmpEq(CStr(cmd, 0), T_RELAY_ON)
             THEN "hc_relay_on_do" ELSE "hc_relay_off"
    /\ UNCHANGED <<i2cResp, servoPos, stepperPos, relayState, lastState, steps>>

\* digitalWrite(RELAY_PIN, HIGH); relayState = true; strcpy(i2cResp, "OK RELAY ON")
RelayOnState == TRUE

HcRelayOnDo ==
    /\ pc = "hc_relay_on_do"
    /\ relayState' = RelayOnState
    /\ i2cResp' = StoreText(i2cResp, T_OK_RELAY_ON)
    /\ pc' = "button"
    /\ UNCHANGED <<servoPos, stepperPos, lastState, steps>>

\* strcmp(i2cCmd, "RELAY OFF") == 0
HcRelayOff(cmd) ==
    /\ pc = "hc_relay_off"
    /\ pc' = IF strcmpEq(CStr(cmd, 0), T_RELAY_OFF)
             THEN "hc_relay_off_do" ELSE "hc_status"
    /\ UNCHANGED <<i2cResp, servoPos, stepperPos, relayState, lastState, steps>>

\* digitalWrite(RELAY_PIN, LOW); relayState = false; strcpy(i2cResp, "OK RELAY OFF")
RelayOffStuckOn == TRUE

RelayOffState == FALSE

HcRelayOffDo ==
    /\ pc = "hc_relay_off_do"
    /\ relayState' = RelayOffState
    /\ i2cResp' = StoreText(i2cResp, T_OK_RELAY_OFF)
    /\ pc' = "button"
    /\ UNCHANGED <<servoPos, stepperPos, lastState, steps>>

\* strcmp(i2cCmd, "STATUS") == 0
HcStatus(cmd) ==
    /\ pc = "hc_status"
    /\ pc' = IF strcmpEq(CStr(cmd, 0), T_STATUS) THEN "hc_status_do" ELSE "hc_err"
    /\ UNCHANGED <<i2cResp, servoPos, stepperPos, relayState, lastState, steps>>

\* snprintf(i2cResp, I2C_BUF, "SERVO=%d RELAY=%s STEPPER=%d", ...)
HcStatusDo ==
    /\ pc = "hc_status_do"
    /\ i2cResp' = StoreText(i2cResp,
                            StatusText(servoPos, relayState, stepperPos))
    /\ pc' = "button"
    /\ UNCHANGED <<servoPos, stepperPos, relayState, lastState, steps>>

\* else: strcpy(i2cResp, "ERR CMD")
HcErr ==
    /\ pc = "hc_err"
    /\ i2cResp' = StoreText(i2cResp, T_ERR_CMD)
    /\ pc' = "button"
    /\ UNCHANGED <<servoPos, stepperPos, relayState, lastState, steps>>

\* The calls that scan i2cCmd, on the bytes they read, and the calls that
\* fill i2cResp.
ScanStep(cmd) ==
    \/ HcServoTest(cmd)
    \/ HcServoDo(cmd)
    \/ HcServoLo(cmd)
    \/ HcServoHi(cmd)
    \/ HcServoVal(cmd)
    \/ HcStepperTest(cmd)
    \/ HcStepperArg(cmd)
    \/ HcRelayOn(cmd)
    \/ HcRelayOff(cmd)
    \/ HcStatus(cmd)

StoreStep ==
    \/ HcServoAck
    \/ HcStepperBusy
    \/ HcStepperDone
    \/ HcRelayOnDo
    \/ HcRelayOffDo
    \/ HcStatusDo
    \/ HcErr

\* handleCommand, while no callback runs
Quiet == NoReceive /\ NoRequest

handleCommand ==
    \/ HcServoTest(i2cCmd) /\ Quiet
    \/ HcServoDo(i2cCmd) /\ Quiet
    \/ HcServoLo(i2cCmd) /\ Quiet
    \/ HcServoHi(i2cCmd) /\ Quiet
    \/ HcServoVal(i2cCmd) /\ Quiet
    \/ HcServoAck /\ Quiet
    \/ HcStepperTest(i2cCmd) /\ Quiet
    \/ HcStepperBusy /\ Quiet
    \/ HcStepperArg(i2cCmd) /\ Quiet
    \/ HcStepperStep /\ Quiet
    \/ HcStepperDone /\ Quiet
    \/ HcRelayOn(i2cCmd) /\ Quiet
    \/ HcRelayOnDo /\ Quiet
    \/ HcRelayOff(i2cCmd) /\ Quiet
    \/ HcRelayOffDo /\ Quiet
    \/ HcStatus(i2cCmd) /\ Quiet
    \/ HcStatusDo /\ Quiet
    \/ HcErr /\ Quiet

\* The Wire callbacks are called from the TWI interrupt, and i2cCmd and
\* i2cResp are plain arrays: a callback may run while a library call of
\* handleCommand is part-way through one of them.  A call lasts microseconds
\* and a bus transaction far longer: one callback at most runs inside a call.

\* What a call that scans i2cCmd reads when onI2CReceive runs after it has
\* read k bytes: those k bytes as they were, the rest as received.
MixedRead(old, new, k) ==
    [i \in 1..I2C_BUF |-> IF i <= k THEN old[i] ELSE new[i]]

\* onI2CReceive inside strncmp, strcmp or atoi of handleCommand, at any byte
\* k of the scan (a k whose byte is the same before and after reads as k - 1)
ReceiveInside(bytes) ==
    /\ sent < MaxCmds
    /\ \E k \in 0..(I2C_BUF - 1) :
          LET new == ReceiveInto(i2cCmd, bytes)
          IN  /\ (IF k = 0 THEN TRUE ELSE i2cCmd[k] # new[k])
              /\ ScanStep(MixedRead(i2cCmd, new, k))
    /\ i2cCmd' = ReceiveInto(i2cCmd, bytes)
    /\ cmdReady' = TRUE
    /\ sent' = sent + 1
    /\ NoRequest

\* What onI2CRequest finds in i2cResp when it runs after strcpy or snprintf
\* has stored k bytes of the new answer: those k bytes, the rest as they were.
PartStored(old, new, k) ==
    [i \in 1..I2C_BUF |-> IF i <= k THEN new[i] ELSE old[i]]

\* onI2CRequest inside strcpy(i2cResp, ...) or snprintf(i2cResp, ...), after
\* any byte k that the store changes
RequestInside ==
    /\ StoreStep
    /\ \E k \in 1..(I2C_BUF - 1) :
          /\ i2cResp'[k] # i2cResp[k]
          /\ wire' = ResponseFrame(CStr(PartStored(i2cResp, i2cResp', k), 0),
                                   btnEvent)
    /\ btnEvent' = IF btnEvent THEN ClearEvent(btnEvent) ELSE btnEvent
    /\ lastReadPresses' = presses
    /\ presses' = 0
    /\ NoReceive

\* handleButton: a falling edge of the button input sets btnEvent
PressDetected(last, current) == last = HIGH /\ current = LOW

handleButton(currentState) ==
    /\ pc = "button"
    /\ IF PressDetected(lastState, currentState)
       THEN /\ btnEvent' = TRUE
            /\ presses' = IF presses < MaxPresses THEN presses + 1 ELSE presses
       ELSE UNCHANGED <<btnEvent, presses>>
    /\ lastState' = currentState
    /\ pc' = "loop"
    /\ UNCHANGED <<cmdReady, i2cCmd, i2cResp, servoPos, stepperPos, relayState,
                   steps, wire, sent, lastReadPresses>>

\* The main loop is inside handleCommand.
InHandleCommand == pc \notin {"loop", "clear", "button"}

\* loop() up to the call of handleButton
LoopCommand ==
    \/ LoopCheck
    \/ LoopClear
    \/ handleCommand

MainLoop ==
    \/ LoopCommand
    \/ \E currentState \in {HIGH, LOW} : handleButton(currentState)

\* ----------------------------------------------------------- the sensor hub

\* The value that stands for a float NaN: no reading in tenths takes it.
NaN == 0 - 9999

\* Readings of one sampling round: h and t in tenths, or NaN, and the light
\* level.  The first two are two different valid samples, the second one
\* half a degree below zero.
Readings ==
    {[t |-> 253, h |-> 401, p |-> 1023],
     [t |-> 0 - 5, h |-> 550, p |-> 4095],
     [t |-> NaN, h |-> 401, p |-> 77],
     [t |-> 253, h |-> NaN, p |-> 78]}

\* unsigned long: millis(), last_event, lastClapMs and now are 32 bits wide.
\* The integers of TLC are the signed 32-bit ones, so an unsigned long u is
\* held as the signed integer of the same 32 bits: u itself below 2^31, and
\* u - 2^32 from 2^31 on.
IntMax == 2147483647

IntMin == 0 - IntMax - 1

\* a + d modulo 2^32, for 0 <= d
Add32(a, d) ==
    IF a > 0 /\ d > IntMax - a
    THEN IntMin + ((d - (IntMax - a)) - 1)
    ELSE a + d

\* a - b modulo 2^32
Sub32(a, b) ==
    IF b >= 0
    THEN IF a < IntMin + b THEN IntMax - ((b - (a - IntMin)) - 1) ELSE a - b
    ELSE IF a > IntMax + b THEN IntMin + (((a - IntMax) - 1) - b) ELSE a - b

\* u > k, u an unsigned long and 0 <= k < 2^31
UGt(u, k) == u < 0 \/ u > k

\* u / 1000, u an unsigned long: 2^32 = 4294967 * 1000 + 296
UDiv1000(u) ==
    IF u >= 0 THEN u \div 1000 ELSE 4294967 + ((u + 296) \div 1000)

\* Clock advances, in ms, each the sum of two terms: the next millisecond, a
\* second and a half (past the 250 ms clap filter), and 2^32 - 1000, which
\* is more than the 1000 s after which a clap counts as none and takes
\* millis() to one second before it wraps.
Jumps == {<<1, 0>>, <<1500, 0>>, <<IntMax, IntMax - 998>>}

\* millis() wraps to 0 in an advance of d from t
Wrapped(t, d) == IF t < 0 /\ t + d >= 0 THEN 1 ELSE 0

InitHub ==
    /\ hsetup = "boot"
    /\ clock = 1
    /\ ticks = 0
    /\ dataMutex = "null"
    /\ data = [temp |-> 0, hum |-> 0, photo |-> 0, lastClapMs |-> 0]
    /\ last_event = 0
    /\ sensorPc = "read"
    /\ reading = [t |-> 0, h |-> 0, p |-> 0]
    /\ soundPc = "poll"
    /\ webPc = "idle"
    /\ json = <<>>
    /\ hi2cPc = "idle"
    /\ now = 0
    /\ hubResp = [i \in 1..I2C_BUF |-> NUL]
    /\ hubWire = <<>>
    /\ wraps = 0
    /\ clapEra = 0

Tick(d) ==
    /\ ticks < MaxTicks
    /\ clock' = Add32(Add32(clock, d[1]), d[2])
    /\ wraps' = wraps + Wrapped(clock, d[1])
                      + Wrapped(Add32(clock, d[1]), d[2])
    /\ ticks' = ticks + 1
    /\ UNCHANGED clapEra
    /\ UNCHANGED <<hsetup, dataMutex, data, last_event, sensorPc,
                   reading, soundPc, webPc, json, hi2cPc, now, hubResp, hubWire>>

\* setup(): Wire.begin(I2C_ADDR); Wire.onRequest(onI2CRequest)
SetupRegister ==
    /\ hsetup = "boot"
    /\ hsetup' = "registered"
    /\ UNCHANGED <<clock, ticks, wraps, clapEra, dataMutex, data, last_event, sensorPc,
                   reading, soundPc, webPc, json, hi2cPc, now, hubResp, hubWire>>

\* setup(): dataMutex = xSemaphoreCreateMutex()
SetupCreateMutex ==
    /\ hsetup = "registered"
    /\ hsetup' = "mutex"
    /\ dataMutex' = "free"
    /\ UNCHANGED <<clock, ticks, wraps, clapEra, data, last_event, sensorPc,
                   reading, soundPc, webPc, json, hi2cPc, now, hubResp, hubWire>>

\* setup(): the three xTaskCreatePinnedToCore calls
SetupCreateTasks ==
    /\ hsetup = "mutex"
    /\ hsetup' = "running"
    /\ UNCHANGED <<clock, ticks, wraps, clapEra, dataMutex, data, last_event, sensorPc,
                   reading, soundPc, webPc, json, hi2cPc, now, hubResp, hubWire>>

\* xSemaphoreTake(dataMutex, portMAX_DELAY) returns once the mutex is free.
MutexNeverBusy(m) == TRUE

MutexAvailable(m) == m = "free"

\* SensorTask: the three reads, and if (!isnan(h) && !isnan(t))
HumidityValid(r) == r.h # NaN

ReadingValid(r) == r.h # NaN /\ r.t # NaN

NoReading == [t |-> 0, h |-> 0, p |-> 0]

SensorRead(r) ==
    /\ hsetup = "running"
    /\ sensorPc = "read"
    /\ IF ReadingValid(r)
       THEN /\ reading' = r
            /\ sensorPc' = "take"
       ELSE /\ reading' = r
            /\ sensorPc' = "skip"
    /\ UNCHANGED <<hsetup, clock, ticks, wraps, clapEra, dataMutex, data, last_event,
                   soundPc, webPc, json, hi2cPc, now, hubResp, hubWire>>

\* The condition is false: vTaskDelay; the locals die with the iteration
SensorSkip ==
    /\ sensorPc = "skip"
    /\ sensorPc' = "read"
    /\ reading' = NoReading
    /\ UNCHANGED <<hsetup, clock, ticks, wraps, clapEra, dataMutex, data, last_event,
                   soundPc, webPc, json, hi2cPc, now, hubResp, hubWire>>

SensorTake ==
    /\ sensorPc = "take"
    /\ MutexAvailable(dataMutex)
    /\ dataMutex' = "sensor"
    /\ sensorPc' = "w_temp"
    /\ UNCHANGED <<hsetup, clock, ticks, wraps, clapEra, data, last_event,
                   reading, soundPc, webPc, json, hi2cPc, now, hubResp, hubWire>>

\* data.temp = t
SensorWriteTemp ==
    /\ sensorPc = "w_temp"
    /\ data' = [data EXCEPT !.temp = reading.t]
    /\ sensorPc' = "w_hum"
    /\ UNCHANGED <<hsetup, clock, ticks, wraps, clapEra, dataMutex, last_event,
                   reading, soundPc, webPc, json, hi2cPc, now, hubResp, hubWire>>

\* data.hum = h
SensorWriteHum ==
    /\ sensorPc = "w_hum"
    /\ data' = [data EXCEPT !.hum = reading.h]
    /\ sensorPc' = "w_photo"
    /\ UNCHANGED <<hsetup, clock, ticks, wraps, clapEra, dataMutex, last_event,
                   reading, soundPc, webPc, json, hi2cPc, now, hubResp, hubWire>>

\* data.photo = p
SensorWritePhoto ==
    /\ sensorPc = "w_photo"
    /\ data' = [data EXCEPT !.photo = reading.p]
    /\ sensorPc' = "give"
    /\ UNCHANGED <<hsetup, clock, ticks, wraps, clapEra, dataMutex, last_event,
                   reading, soundPc, webPc, json, hi2cPc, now, hubResp, hubWire>>

\* xSemaphoreGive(dataMutex); vTaskDelay; the locals die with the iteration
SensorKeep ==
    /\ sensorPc = "give"
    /\ sensorPc' = "read"
    /\ reading' = NoReading
    /\ UNCHANGED <<hsetup, clock, ticks, wraps, clapEra, dataMutex, data, last_event,
                   soundPc, webPc, json, hi2cPc, now, hubResp, hubWire>>

SensorGive ==
    /\ sensorPc = "give"
    /\ dataMutex' = "free"
    /\ sensorPc' = "read"
    /\ reading' = NoReading
    /\ UNCHANGED <<hsetup, clock, ticks, wraps, clapEra, data, last_event,
                   soundPc, webPc, json, hi2cPc, now, hubResp, hubWire>>

\* SoundTask: the clap filter, millis() - last_event > 250, a difference of
\* two unsigned long: taken modulo 2^32
NoClapFilter(t, last) == TRUE

ClapFilter(t, last) == UGt(Sub32(t, last), 250)

\* SoundTask: if (digitalRead(MIC_PIN) == LOW) if (millis() - last_event > 250)
SoundPoll(mic) ==
    /\ hsetup = "running"
    /\ soundPc = "poll"
    /\ mic = LOW
    /\ ClapFilter(clock, last_event)
    /\ soundPc' = "take"
    /\ UNCHANGED <<hsetup, clock, ticks, wraps, clapEra, dataMutex, data, last_event,
                   sensorPc, reading, webPc, json, hi2cPc, now, hubResp, hubWire>>

SoundTake ==
    /\ soundPc = "take"
    /\ MutexAvailable(dataMutex)
    /\ dataMutex' = "sound"
    /\ soundPc' = "stamp"
    /\ UNCHANGED <<hsetup, clock, ticks, wraps, clapEra, data, last_event,
                   sensorPc, reading, webPc, json, hi2cPc, now, hubResp, hubWire>>

\* data.lastClapMs = millis()
SoundStamp ==
    /\ soundPc = "stamp"
    /\ data' = [data EXCEPT !.lastClapMs = clock]
    /\ clapEra' = wraps
    /\ soundPc' = "give"
    /\ UNCHANGED <<hsetup, clock, ticks, wraps, dataMutex, last_event,
                   sensorPc, reading, webPc, json, hi2cPc, now, hubResp, hubWire>>

SoundGive ==
    /\ soundPc = "give"
    /\ dataMutex' = "free"
    /\ soundPc' = "mark"
    /\ UNCHANGED <<hsetup, clock, ticks, wraps, clapEra, data, last_event,
                   sensorPc, reading, webPc, json, hi2cPc, now, hubResp, hubWire>>

\* last_event = millis(); vTaskDelay
SoundMark ==
    /\ soundPc = "mark"
    /\ last_event' = clock
    /\ soundPc' = "poll"
    /\ UNCHANGED <<hsetup, clock, ticks, wraps, clapEra, dataMutex, data,
                   sensorPc, reading, webPc, json, hi2cPc, now, hubResp, hubWire>>

\* WebTask: server.handleClient() dispatches GET /status to handleStatus
WebRequest ==
    /\ hsetup = "running"
    /\ webPc = "idle"
    /\ webPc' = "take"
    /\ UNCHANGED <<hsetup, clock, ticks, wraps, clapEra, dataMutex, data, last_event,
                   sensorPc, reading, soundPc, json, hi2cPc, now, hubResp, hubWire>>

WebTake ==
    /\ webPc = "take"
    /\ MutexAvailable(dataMutex)
    /\ dataMutex' = "web"
    /\ webPc' = "read"
    /\ UNCHANGED <<hsetup, clock, ticks, wraps, clapEra, data, last_event,
                   sensorPc, reading, soundPc, json, hi2cPc, now, hubResp, hubWire>>

\* handleStatus: now = millis(); clapAgo = (now - data.lastClapMs) / 1000.0,
\* held as the unsigned long of ms it is computed from, or -1 (seconds) when
\* no clap is recorded; the JSON text's fields
WebRead ==
    /\ webPc = "read"
    /\ json' = [temp |-> data.temp, hum |-> data.hum, photo |-> data.photo,
                clapAgo |-> IF UGt(data.lastClapMs, 0)
                            THEN [ms |-> Sub32(clock, data.lastClapMs)]
                            ELSE [s |-> 0 - 1]]
    /\ webPc' = "give"
    /\ UNCHANGED <<hsetup, clock, ticks, wraps, clapEra, dataMutex, data, last_event,
                   sensorPc, reading, soundPc, hi2cPc, now, hubResp, hubWire>>

\* xSemaphoreGive(dataMutex)
WebGive ==
    /\ webPc = "give"
    /\ dataMutex' = "free"
    /\ webPc' = "send"
    /\ UNCHANGED <<hsetup, clock, ticks, wraps, clapEra, data, last_event,
                   sensorPc, reading, soundPc, json, hi2cPc, now, hubResp, hubWire>>

\* server.send(200, "application/json", json), with the mutex released;
\* the local json dies on return
WebSend ==
    /\ webPc = "send"
    /\ json' = <<>>
    /\ webPc' = "idle"
    /\ UNCHANGED <<hsetup, clock, ticks, wraps, clapEra, dataMutex, data, last_event,
                   sensorPc, reading, soundPc, hi2cPc, now, hubResp, hubWire>>

\* The master starts a read transaction and the callback is entered:
\* unsigned long now = millis(); int clapSec = -1
HubRequest ==
    /\ hsetup # "boot"
    /\ hi2cPc = "idle"
    /\ now' = clock
    /\ hi2cPc' = "take"
    /\ hubWire' = <<>>
    /\ UNCHANGED <<hsetup, clock, ticks, wraps, clapEra, dataMutex, data, last_event,
                   sensorPc, reading, soundPc, webPc, json, hubResp>>

\* xSemaphoreTake(dataMutex, portMAX_DELAY), dataMutex a mutex: it returns
\* once the mutex is free.
HubTake ==
    /\ hi2cPc = "take"
    /\ dataMutex # "null"
    /\ MutexAvailable(dataMutex)
    /\ dataMutex' = "i2c"
    /\ hi2cPc' = "fmt"
    /\ UNCHANGED <<hsetup, clock, ticks, wraps, clapEra, data, last_event,
                   sensorPc, reading, soundPc, webPc, json, now, hubResp, hubWire>>

\* xSemaphoreTake(dataMutex, portMAX_DELAY), dataMutex still the NULL of its
\* declaration: the call does not return. The kernel asserts on the handle,
\* or dereferences it; either way the chip panics and restarts, and the
\* sketch is at the start of setup() again, its globals as at boot. No
\* task exists yet at that point, so only setup's position, millis() and the
\* callback's own position have anything to go back from.
HubTakeNull ==
    /\ hi2cPc = "take"
    /\ dataMutex = "null"
    /\ hsetup' = "boot"
    /\ clock' = 1
    /\ wraps' = 0
    /\ clapEra' = 0
    /\ data' = [temp |-> 0, hum |-> 0, photo |-> 0, lastClapMs |-> 0]
    /\ last_event' = 0
    /\ hi2cPc' = "idle"
    /\ now' = 0
    /\ hubResp' = [i \in 1..I2C_BUF |-> NUL]
    /\ hubWire' = <<>>
    /\ UNCHANGED <<ticks, dataMutex, sensorPc, reading, soundPc, webPc, json>>

\* (now - data.lastClapMs) / 1000 in unsigned 32-bit arithmetic: the
\* difference is taken modulo 2^32.
ElapsedSec(n, last) == UDiv1000(Sub32(n, last))

\* if (data.lastClapMs > 0) { clapSec = ...; if (clapSec >= 1000) clapSec = -1; }
ClapSec(n, last) ==
    IF UGt(last, 0)
    THEN IF ElapsedSec(n, last) >= 1000 THEN 0 - 1 ELSE ElapsedSec(n, last)
    ELSE 0 - 1

\* printf's %.1f of a value held in tenths: the sign, then the magnitude
Fmt1(x) ==
    LET mag == IF x < 0 THEN 0 - x ELSE x
    IN  (IF x < 0 THEN <<"-">> ELSE <<>>)
            \o DecNat(mag \div 10) \o <<".">> \o <<Digits[(mag % 10) + 1]>>

ReplyLine(d, c) ==
    F_T \o Fmt1(d.temp) \o F_H \o Fmt1(d.hum) \o F_P \o Dec(d.photo)
        \o F_C \o Dec(c)

\* memset(i2cResp, 0, I2C_BUF); snprintf(i2cResp, I2C_BUF, ...)
ReplyBuffer(d, c) ==
    LET text == Take(ReplyLine(d, c), I2C_BUF - 1)
    IN  text \o [i \in 1..(I2C_BUF - Len(text)) |-> NUL]

HubFormat ==
    /\ hi2cPc = "fmt"
    /\ hubResp' = ReplyBuffer(data, ClapSec(now, data.lastClapMs))
    /\ hi2cPc' = "give"
    /\ UNCHANGED <<hsetup, clock, ticks, wraps, clapEra, dataMutex, data, last_event,
                   sensorPc, reading, soundPc, webPc, json, now, hubWire>>

\* xSemaphoreGive(dataMutex)
HubGive ==
    /\ hi2cPc = "give"
    /\ dataMutex' = "free"
    /\ hi2cPc' = "write"
    /\ UNCHANGED <<hsetup, clock, ticks, wraps, clapEra, data, last_event,
                   sensorPc, reading, soundPc, webPc, json, now, hubResp, hubWire>>

\* Wire.write((const uint8_t*)i2cResp, I2C_BUF), with the mutex released;
\* the local now dies on return
HubWrite ==
    /\ hi2cPc = "write"
    /\ hubWire' = SubSeq(hubResp, 1, I2C_BUF)
    /\ hi2cPc' = "idle"
    /\ now' = 0
    /\ UNCHANGED <<hsetup, clock, ticks, wraps, clapEra, dataMutex, data, last_event,
                   sensorPc, reading, soundPc, webPc, json, hubResp>>

SensorTask ==
    \/ \E r \in Readings : SensorRead(r)
    \/ SensorSkip
    \/ SensorTake
    \/ SensorWriteTemp
    \/ SensorWriteHum
    \/ SensorWritePhoto
    \/ SensorGive

SoundTask ==
    \/ \E mic \in {HIGH, LOW} : SoundPoll(mic)
    \/ SoundTake
    \/ SoundStamp
    \/ SoundGive
    \/ SoundMark

handleStatus ==
    \/ WebRequest
    \/ WebTake
    \/ WebRead
    \/ WebGive
    \/ WebSend

HubOnI2CRequest ==
    \/ HubRequest
    \/ HubTake
    \/ HubTakeNull
    \/ HubFormat
    \/ HubGive
    \/ HubWrite

setup ==
    \/ SetupRegister
    \/ SetupCreateMutex
    \/ SetupCreateTasks

\* ------------------------------------------------ the master's orchestrator

\* The operator's lines, the local acknowledgements and the timeout line.
\* A line of the operator channel is its words, after a pictograph and a
\* blank where it opens with one: mark is the pictograph's code point
\* (U+1F4E1 is 128225, U+1F6D1 is 128721), and 0 for a line of words only.
L_SENSORS == "SENSORS"
L_STOP == "STOP"
L_RELAY_ON == "RELAY ON"
L_STATUS == "STATUS"
ACK_SENSORS == [mark |-> 128225, text |-> "Sensors enabled"]
ACK_STOP == [mark |-> 128721, text |-> "Sensors stopped"]
ERR_TIMEOUT_ACTUATOR == "ERR TIMEOUT actuator"
PEER_RESPONSE == "response of the peer"

RoutedLines == {L_RELAY_ON, L_STATUS}

OperatorLines == {L_SENSORS, L_STOP} \cup RoutedLines

\* The outcome of the response read of a transaction.
Outcomes == {"response", "timeout"}

\* A line as `by` emits it, and a line of words only.
Said(by, line) == [by |-> by, mark |-> line.mark, text |-> line.text]

Words(text) == [mark |-> 0, text |-> text]

\* The Poller starts DISABLED; the interval is one poll period, and no poll
\* has been made.
InitMaster ==
    /\ pollState = [enabled |-> FALSE, interval |-> 1, last |-> 0]
    /\ opQueue = <<>>
    /\ opOut = <<>>
    /\ routerPc = "idle"
    /\ routerCmd = ""
    /\ pollerPc = "idle"
    /\ busOwner = "none"
    /\ busFrame = <<>>
    /\ linesIn = 0
    /\ polls = 0
    /\ routed = 0
    /\ txns = 0

\* Operator input may arrive at any moment; it is queued, not dropped.
OperatorLine(l) ==
    /\ linesIn < MaxLines
    /\ opQueue' = Append(opQueue, l)
    /\ linesIn' = linesIn + 1
    /\ UNCHANGED <<pollState, opOut, routerPc, routerCmd, pollerPc, busOwner,
                   busFrame, polls, routed, txns>>

\* SENSORS: DISABLED -> ENABLED, arms the timer.
PollAfterSensors(ps) == [ps EXCEPT !.enabled = TRUE]

PollToggled(ps) == [ps EXCEPT !.enabled = ~ps.enabled]

\* STOP: ENABLED -> DISABLED, disarms the timer; a no-op when DISABLED.
PollAfterStop(ps) == [ps EXCEPT !.enabled = FALSE]

\* The acknowledgement of STOP is the same whatever the state was.
StopAck(ps) == ACK_STOP

\* SENSORS and STOP are handled locally and never reach the bus.
RouterLocal ==
    /\ routerPc = "idle"
    /\ opQueue # <<>>
    /\ Head(opQueue) \in {L_SENSORS, L_STOP}
    /\ opQueue' = Tail(opQueue)
    /\ IF Head(opQueue) = L_SENSORS
       THEN /\ pollState' = PollAfterSensors(pollState)
            /\ opOut' = Append(opOut, Said("router", ACK_SENSORS))
       ELSE /\ pollState' = PollAfterStop(pollState)
            /\ opOut' = Append(opOut, Said("router", StopAck(pollState)))
    /\ UNCHANGED <<routerPc, routerCmd, pollerPc, busOwner, busFrame, linesIn,
                   polls, routed, txns>>

\* Any other command is routed to its peer: one transaction, synchronous.
RouterRoute ==
    /\ routerPc = "idle"
    /\ opQueue # <<>>
    /\ Head(opQueue) \in RoutedLines
    /\ opQueue' = Tail(opQueue)
    /\ routerCmd' = Head(opQueue)
    /\ routerPc' = "acquire"
    /\ routed' = routed + 1
    /\ UNCHANGED <<pollState, opOut, pollerPc, busOwner, busFrame, linesIn,
                   polls, txns>>

\* The mutual exclusion of the Bus Transport.
BusAlwaysFree(owner) == TRUE

BusFree(owner) == owner = "none"

RouterAcquire ==
    /\ routerPc = "acquire"
    /\ BusFree(busOwner)
    /\ busOwner' = "router"
    /\ busFrame' = <<>>
    /\ routerPc' = "write"
    /\ txns' = txns + 1
    /\ UNCHANGED <<pollState, opQueue, opOut, routerCmd, pollerPc, linesIn,
                   polls, routed>>

\* Half of the bytes of a frame, as written by `who`.
HalfFrame(who) == [i \in 1..(I2C_BUF \div 2) |-> who]

\* The request write, in two halves.
RouterWrite ==
    /\ routerPc = "write"
    /\ busFrame' = busFrame \o HalfFrame("router")
    /\ routerPc' = IF Len(busFrame') >= I2C_BUF THEN "read" ELSE "write"
    /\ UNCHANGED <<pollState, opQueue, opOut, routerCmd, pollerPc, busOwner,
                   linesIn, polls, routed, txns>>

\* On a timeout the Router does not retry.
RetryAfterTimeout == "acquire"

AfterTimeout == "idle"

\* The response read: the peer's response, or the timeout; then the bus is
\* released and one line is emitted.
RouterRead(outcome) ==
    /\ routerPc = "read"
    /\ opOut' = Append(opOut,
                       Said("router",
                            Words(IF outcome = "timeout"
                                  THEN ERR_TIMEOUT_ACTUATOR ELSE PEER_RESPONSE)))
    /\ busOwner' = "none"
    /\ routerPc' = IF outcome = "timeout" THEN AfterTimeout ELSE "idle"
    /\ UNCHANGED <<pollState, opQueue, routerCmd, pollerPc, busFrame, linesIn,
                   polls, routed, txns>>

\* While ENABLED, the interval elapses: the tick stamps PollState.
PollTick ==
    /\ pollState.enabled
    /\ pollerPc = "idle"
    /\ polls < MaxPolls
    /\ pollerPc' = "pending"
    /\ polls' = polls + 1
    /\ pollState' = [pollState EXCEPT !.last = polls + 1]
    /\ UNCHANGED <<opQueue, opOut, routerPc, routerCmd, busOwner,
                   busFrame, linesIn, routed, txns>>

\* The tick is deferred while the bus is busy; a waiting Router goes first.
PollerAcquire ==
    /\ pollerPc = "pending"
    /\ pollState.enabled
    /\ BusFree(busOwner)
    /\ routerPc # "acquire"
    /\ busOwner' = "poller"
    /\ busFrame' = <<>>
    /\ pollerPc' = "write"
    /\ UNCHANGED <<pollState, opQueue, opOut, routerPc, routerCmd, linesIn,
                   polls, routed, txns>>

\* STOP takes effect on or before the next tick: a deferred tick is dropped.
PollerCancel ==
    /\ pollerPc = "pending"
    /\ ~pollState.enabled
    /\ pollerPc' = "idle"
    /\ UNCHANGED <<pollState, opQueue, opOut, routerPc, routerCmd, busOwner,
                   busFrame, linesIn, polls, routed, txns>>

PollerWrite ==
    /\ pollerPc = "write"
    /\ busFrame' = busFrame \o HalfFrame("poller")
    /\ pollerPc' = IF Len(busFrame') >= I2C_BUF THEN "read" ELSE "write"
    /\ UNCHANGED <<pollState, opQueue, opOut, routerPc, routerCmd, busOwner,
                   linesIn, polls, routed, txns>>

\* The result goes to the operator channel; a failed tick is skipped.
PollerRead(outcome) ==
    /\ pollerPc = "read"
    /\ opOut' = IF outcome = "timeout" THEN opOut
                ELSE Append(opOut, Said("poller", Words(PEER_RESPONSE)))
    /\ busOwner' = "none"
    /\ pollerPc' = "idle"
    /\ UNCHANGED <<pollState, opQueue, routerPc, routerCmd, busFrame, linesIn,
                   polls, routed, txns>>

Router ==
    \/ RouterLocal
    \/ RouterRoute
    \/ RouterAcquire
    \/ RouterWrite
    \/ \E outcome \in Outcomes : RouterRead(outcome)

Poller ==
    \/ PollTick
    \/ PollerAcquire
    \/ PollerCancel
    \/ PollerWrite
    \/ \E outcome \in Outcomes : PollerRead(outcome)

\* ---------------------------------------------------------- specifications

\* A master that writes and reads at any moment.  It writes the commands of
\* the command interface; the arguments that exercise atoi are left to the
\* master that waits, under which no callback runs inside handleCommand.
AsyncCommands ==
    {ServoSetCmd(Dec(45)), ServoSetCmd(Dec(200)),
     StepperMoveCmd(Dec(512)), StepperMoveCmd(Dec(0 - 1000)),
     T_RELAY_ON, T_RELAY_OFF, T_STATUS}

MasterWrite == \E c \in AsyncCommands : onI2CReceive(c)

\* A write that arrives while handleCommand is reading i2cCmd.
MasterWriteInside == \E c \in AsyncCommands : ReceiveInside(c)

\* pinMode(BUTTON_PIN, INPUT_PULLUP): the input reads HIGH until pressed
InitButton ==
    /\ pin = HIGH
    /\ swung = FALSE
    /\ owed = FALSE
    /\ executed = <<>>

Init == InitActuator /\ InitHub /\ InitButton /\ InitMaster

Next ==
    \/ MainLoop /\ UNCHANGED <<mvars, hvars, evars, stmvars>>
    \/ MasterWrite /\ UNCHANGED <<mvars, hvars, evars, stmvars>>
    \/ onI2CRequest /\ UNCHANGED <<mvars, hvars, evars, stmvars>>
    \/ MasterWriteInside /\ UNCHANGED <<mvars, hvars, evars, stmvars>>
    \/ RequestInside /\ UNCHANGED <<mvars, hvars, evars, stmvars>>

Spec == Init /\ [][Next]_vars

\* A master that writes one command, lets the main loop execute it, reads the
\* response, and only then writes the next command.
Settled == ~cmdReady /\ pc \in {"loop", "button"}

SeqWrite ==
    /\ Len(acks) = Len(script)
    /\ \E c \in Commands :
          /\ onI2CReceive(c)
          /\ script' = Append(script, c)
    /\ acks' = acks
    /\ UNCHANGED <<hvars, evars, stmvars>>

SeqRead ==
    /\ Len(acks) < Len(script)
    /\ Settled
    /\ onI2CRequest
    /\ acks' = Append(acks, wire')
    /\ script' = script
    /\ UNCHANGED <<hvars, evars, stmvars>>

NextSeq ==
    \/ MainLoop /\ UNCHANGED <<mvars, hvars, evars, stmvars>>
    \/ SeqWrite
    \/ SeqRead

SpecSeq == Init /\ [][NextSeq]_vars

\* The button.  stepper.step(steps) returns only when the motor has made its
\* steps: until then the main loop reads nothing.  The motor turns for the
\* steps the call was given, whatever is written to i2cCmd meanwhile.
StepperTurning == pc = "hc_stepper_step" /\ steps # 0

\* The button input changes level.  An iteration of loop() outside a stepper
\* move takes microseconds, so the level changes at most once between two
\* reads by handleButton; during a stepper move it may change any number of
\* times.  A change from HIGH to LOW is a press.
ButtonChange ==
    /\ ~swung \/ StepperTurning
    /\ pin' = (IF pin = HIGH THEN LOW ELSE HIGH)
    /\ swung' = TRUE
    /\ owed' = (IF pin = HIGH THEN TRUE ELSE owed)
    /\ UNCHANGED <<avars, mvars, hvars, stmvars, executed>>

\* handleButton: bool currentState = digitalRead(BUTTON_PIN)
BtnPoll ==
    /\ handleButton(pin)
    /\ swung' = FALSE
    /\ UNCHANGED <<pin, owed, executed, mvars, hvars, stmvars>>

\* A read request; the one that finds btnEvent set reports the presses so far.
BtnRead ==
    /\ onI2CRequest
    /\ owed' = (IF btnEvent THEN FALSE ELSE owed)
    /\ UNCHANGED <<pin, swung, executed, mvars, hvars, stmvars>>

\* A read request inside a step of handleCommand reports them as well.
BtnReadInside ==
    /\ RequestInside
    /\ owed' = (IF btnEvent THEN FALSE ELSE owed)
    /\ UNCHANGED <<pin, swung, executed, mvars, hvars, stmvars>>

BtnLoop == LoopCommand /\ UNCHANGED <<mvars, hvars, evars, stmvars>>

NextBtn ==
    \/ BtnLoop
    \/ BtnPoll
    \/ ButtonChange
    \/ BtnRead
    \/ BtnReadInside
    \/ MasterWrite /\ UNCHANGED <<mvars, hvars, evars, stmvars>>
    \/ MasterWriteInside /\ UNCHANGED <<mvars, hvars, evars, stmvars>>

\* loop() runs for ever, and the master keeps issuing reads.
SpecBtn ==
    Init /\ [][NextBtn]_vars /\ WF_vars(BtnLoop \/ BtnPoll) /\ WF_vars(BtnRead)

\* The actuator with the history of what it received and what it executed.
\* What a call of handleCommand did is read off the branch it returns from:
\* the branch, and for the servo and the stepper the value it was given,
\* servo.write(servoPos) and stepper.step(steps).
Acted ==
    IF pc = "hc_servo_ack" THEN [op |-> "SERVO SET", arg |-> servoPos]
    ELSE IF pc = "hc_stepper_done" THEN [op |-> "STEPPER MOVE", arg |-> steps]
    ELSE IF pc = "hc_relay_on_do" THEN [op |-> "RELAY ON", arg |-> 0]
    ELSE IF pc = "hc_relay_off_do" THEN [op |-> "RELAY OFF", arg |-> 0]
    ELSE IF pc = "hc_status_do" THEN [op |-> "STATUS", arg |-> 0]
    ELSE [op |-> "ERR CMD", arg |-> 0]

\* The step is the last of a call of handleCommand.
Returns == InHandleCommand /\ pc' = "button"

OnceWrite ==
    /\ \E c \in AsyncCommands :
          /\ onI2CReceive(c)
          /\ script' = Append(script, c)
    /\ UNCHANGED <<acks, hvars, evars, stmvars>>

OnceLoop ==
    /\ LoopCommand
    /\ executed' = (IF Returns THEN Append(executed, Acted) ELSE executed)
    /\ UNCHANGED <<pin, swung, owed, mvars, hvars, stmvars>>

\* A write that arrives inside a step of handleCommand, and a read request
\* inside one: the step is made as well.
OnceWriteInside ==
    /\ \E c \in AsyncCommands :
          /\ ReceiveInside(c)
          /\ script' = Append(script, c)
    /\ executed' = (IF Returns THEN Append(executed, Acted) ELSE executed)
    /\ UNCHANGED <<acks, pin, swung, owed, hvars, stmvars>>

OnceReadInside ==
    /\ RequestInside
    /\ executed' = (IF Returns THEN Append(executed, Acted) ELSE executed)
    /\ UNCHANGED <<pin, swung, owed, mvars, hvars, stmvars>>

OnceButton ==
    /\ \E currentState \in {HIGH, LOW} : handleButton(currentState)
    /\ UNCHANGED <<mvars, hvars, evars, stmvars>>

NextOnce ==
    \/ OnceWrite
    \/ OnceLoop
    \/ OnceButton
    \/ onI2CRequest /\ UNCHANGED <<mvars, hvars, evars, stmvars>>
    \/ OnceWriteInside
    \/ OnceReadInside

SpecOnce == Init /\ [][NextOnce]_vars

NextMaster ==
    \/ (\E l \in OperatorLines : OperatorLine(l))
            /\ UNCHANGED <<avars, mvars, hvars, evars>>
    \/ Router /\ UNCHANGED <<avars, mvars, hvars, evars>>
    \/ Poller /\ UNCHANGED <<avars, mvars, hvars, evars>>

SpecMaster == Init /\ [][NextMaster]_vars

NextHub ==
    \/ setup /\ UNCHANGED <<avars, mvars, evars, stmvars>>
    \/ (\E d \in Jumps : Tick(d)) /\ UNCHANGED <<avars, mvars, evars, stmvars>>
    \/ SensorTask /\ UNCHANGED <<avars, mvars, evars, stmvars>>
    \/ SoundTask /\ UNCHANGED <<avars, mvars, evars, stmvars>>
    \/ handleStatus /\ UNCHANGED <<avars, mvars, evars, stmvars>>
    \/ HubOnI2CRequest /\ UNCHANGED <<avars, mvars, evars, stmvars>>

SpecHub == Init /\ [][NextHub]_vars

\* ------------------------------------------------- what the claims speak of

\* The text of a response frame: its bytes before the terminator.
FrameText(frame) == CStr(frame, 0)

\* A frame that is `text`, alone or followed by the complete event marker.
IsAck(frame, text) ==
    \/ FrameText(frame) = text
    \/ FrameText(frame) = text \o T_BTN_PRESSED

StartsWith(s, prefix) == Len(s) >= Len(prefix) /\ Take(s, Len(prefix)) = prefix

\* An optional minus sign and at least one decimal digit.
IsIntText(a) ==
    LET body == IF Len(a) >= 1 /\ a[1] = "-" THEN Tail(a) ELSE a
    IN  Len(body) >= 1 /\ \A i \in 1..Len(body) : IsDigit(body[i])

RECURSIVE StripZeros(_)
StripZeros(d) ==
    IF Len(d) > 1 /\ d[1] = "0" THEN StripZeros(Tail(d)) ELSE d

RECURSIVE NatOf(_)
NatOf(d) ==
    IF Len(d) = 0 THEN 0 ELSE 10 * NatOf(SubSeq(d, 1, Len(d) - 1)) + DigitVal(d[Len(d)])

\* min(max(n, 0), 180) for the integer n that the decimal text a denotes,
\* whatever its size.
ClampOfText(a) ==
    IF a[1] = "-" THEN 0
    ELSE LET d == StripZeros(a)
         IN  IF Len(d) > 3 THEN 180
             ELSE IF NatOf(d) > 180 THEN 180 ELSE NatOf(d)

IsServoSetInt(c) ==
    /\ StartsWith(c, T_SERVO_SET \o <<" ">>)
    /\ IsIntText(SubSeq(c, 11, Len(c)))

IsStepperMoveInt(c) ==
    /\ StartsWith(c, T_STEPPER_MOVE \o <<" ">>)
    /\ IsIntText(SubSeq(c, 14, Len(c)))

\* The accepted commands of the command table.
IsAcceptedCmd(c) ==
    \/ IsServoSetInt(c)
    \/ IsStepperMoveInt(c)
    \/ c \in {T_RELAY_ON, T_RELAY_OFF, T_STATUS}

HasMarker(frame) == \E i \in 1..Len(frame) : frame[i] = "+"

MarkerCount(frame) == Cardinality({i \in 1..Len(frame) : frame[i] = "+"})

\* ------------------------------------------------------------------ claims

\* C1 (as stated): with a master that waits for each execution, the STATUS
\* read right after `SERVO SET n` reports SERVO=min(max(n,0),180), for every
\* integer n, and `SERVO SET n` itself is answered OK SERVO.
C1_ServoThenStatusClamped ==
    \A k \in 1..Len(acks) :
        IsServoSetInt(script[k]) =>
            /\ IsAck(acks[k], T_OK_SERVO)
            /\ (k + 1 <= Len(acks) /\ script[k + 1] = T_STATUS) =>
                   StartsWith(FrameText(acks[k + 1]),
                              F_SERVO \o Dec(ClampOfText(SubSeq(script[k], 11, Len(script[k]))))
                                  \o F_RELAY)

\* C2 (as stated): whenever the master reads after having written a command,
\* the frame carries the documented response of the command written last
\* (the one i2cCmd holds), with or without the event marker.
DocumentedResponse(c, text) ==
    IF IsServoSetInt(c) THEN StartsWith(text, T_OK_SERVO)
    ELSE IF IsStepperMoveInt(c) THEN StartsWith(text, T_OK_STEPPER)
    ELSE IF c = T_RELAY_OFF THEN StartsWith(text, T_OK_RELAY_OFF)
    ELSE IF c = T_RELAY_ON THEN StartsWith(text, T_OK_RELAY_ON)
    ELSE IF c = T_STATUS THEN StartsWith(text, F_SERVO)
    ELSE StartsWith(text, T_ERR_CMD)

C2_ReadAnswersLastCommand ==
    [][(onI2CRequest /\ sent > 0) =>
          DocumentedResponse(CStr(i2cCmd, 0), FrameText(wire'))]_vars

\* C3 (as stated): in every reachable state the text STATUS would store is the
\* whole line SERVO=<servoPos> RELAY=<ON|OFF> STEPPER=<stepperPos>: the line
\* fits the 31 characters of the response buffer.
C3_StatusLineFits ==
    /\ Len(StatusLine(servoPos, relayState, stepperPos)) <= I2C_BUF - 1
    /\ StatusText(servoPos, relayState, stepperPos)
           = StatusLine(servoPos, relayState, stepperPos)

\* C4: a response carries the marker only if a press was detected since the
\* previous read request, it carries it once however many presses were
\* detected, and btnEvent is pending exactly while a press detected since
\* the last read request has not been consumed by one.
C4_EventAtMostOnce ==
    /\ btnEvent <=> presses > 0
    /\ wire # <<>> =>
          /\ HasMarker(wire) => lastReadPresses >= 1
          /\ MarkerCount(wire) <= 1

\* C4 witness: a read request has reported two coalesced presses with one
\* marker and left no event pending.
C4_Witness ==
    /\ wire # <<>>
    /\ HasMarker(wire)
    /\ lastReadPresses = 2
    /\ ~btnEvent
    /\ presses = 0

\* C11 (as stated): every press of the button (a change of the input from
\* HIGH to LOW, whenever it happens) sets the event flag, so that a later
\* response carries the marker: once handleButton has read the input after
\* the press, btnEvent is set unless a read request has reported the press.
C11_PressReported == (owed /\ ~swung) => btnEvent

\* C12: at most one bus transaction is in flight: the Router and the Poller
\* are never both between their request write and their response read, the
\* one that is holds the bus, and all the bytes of a frame write come from
\* one of them.
InTransaction(p) == p \in {"write", "read"}

C12_OneTransaction ==
    /\ ~(InTransaction(routerPc) /\ InTransaction(pollerPc))
    /\ InTransaction(routerPc) => busOwner = "router"
    /\ InTransaction(pollerPc) => busOwner = "poller"
    /\ Len(busFrame) <= I2C_BUF
    /\ \A i, j \in 1..Len(busFrame) : busFrame[i] = busFrame[j]

\* C12 witness: an operator command waits for the bus while a poll tick is
\* in the middle of its frame write.
C12_Witness ==
    /\ pollerPc = "write"
    /\ Len(busFrame) = I2C_BUF \div 2
    /\ routerPc = "acquire"
    /\ busOwner = "poller"

\* C13: the poller starts DISABLED; handling SENSORS leaves it ENABLED and
\* handling STOP leaves it DISABLED, whatever it was; STOP while DISABLED
\* leaves PollState as it was, and STOP is acknowledged by the same line in
\* both states.
Handles(l) ==
    /\ routerPc = "idle"
    /\ opQueue # <<>>
    /\ Head(opQueue) = l
    /\ opQueue' = Tail(opQueue)

C13_PollerStates ==
    /\ ~pollState.enabled
    /\ [][/\ Handles(L_SENSORS) => pollState'.enabled
          /\ Handles(L_STOP) =>
                /\ ~pollState'.enabled
                /\ ~pollState.enabled => pollState' = pollState
                /\ opOut' = Append(opOut, Said("router", ACK_STOP))]_vars

\* C13 witness: SENSORS, a poll tick, STOP, STOP: the second STOP found the
\* poller DISABLED, left the stamp of the tick in PollState, and was
\* acknowledged as the first.
C13_Witness ==
    /\ opOut = <<Said("router", ACK_SENSORS), Said("router", ACK_STOP),
                 Said("router", ACK_STOP)>>
    /\ pollState = [enabled |-> FALSE, interval |-> 1, last |-> 1]

\* C14: a timeout of a routed command emits the one line ERR TIMEOUT
\* actuator and leaves PollState as it was; the Router starts one transaction
\* per routed command, never a second one, and when it is idle again every
\* routed command has got exactly one line.
RoutedOut ==
    Cardinality({i \in 1..Len(opOut) :
                    /\ opOut[i].by = "router"
                    /\ opOut[i].text \in {ERR_TIMEOUT_ACTUATOR, PEER_RESPONSE}})

TimedOut ==
    /\ routerPc = "read"
    /\ Len(opOut') > Len(opOut)
    /\ opOut'[Len(opOut')].text = ERR_TIMEOUT_ACTUATOR

C14_TimeoutOnce ==
    /\ [](/\ txns <= routed
          /\ RoutedOut <= routed
          /\ routerPc = "idle" => (RoutedOut = routed /\ txns = routed))
    /\ [][TimedOut =>
            /\ pollState' = pollState
            /\ Len(opOut') = Len(opOut) + 1
            /\ routerPc' = "idle"
            /\ busOwner' = "none"]_vars

\* C14 witness: polling is enabled and the one routed command has timed out.
C14_Witness ==
    /\ pollState.enabled
    /\ routed = 1
    /\ txns = 1
    /\ routerPc = "idle"
    /\ RoutedOut = 1
    /\ \E i \in 1..Len(opOut) : opOut[i].text = ERR_TIMEOUT_ACTUATOR

\* C15 (as stated): what handleCommand has done, call after call, is what
\* the commands received ask for, one call for each and in their order: at
\* every moment the calls made answer a prefix of the commands received, and
\* once no command is pending or in execution there is a call for each.
\* What a received command asks for is what handleCommand does on a buffer
\* that holds it whole.
Asked(c) ==
    LET buf == ReceiveInto([i \in 1..I2C_BUF |-> NUL], c)
    IN  IF strncmpEq(CStr(buf, 0), T_SERVO_SET, 9)
        THEN [op |-> "SERVO SET", arg |-> ServoTarget(buf)]
        ELSE IF strncmpEq(CStr(buf, 0), T_STEPPER_MOVE, 12)
        THEN [op |-> "STEPPER MOVE", arg |-> atoi(CStr(buf, 13))]
        ELSE IF strcmpEq(CStr(buf, 0), T_RELAY_ON) THEN [op |-> "RELAY ON", arg |-> 0]
        ELSE IF strcmpEq(CStr(buf, 0), T_RELAY_OFF) THEN [op |-> "RELAY OFF", arg |-> 0]
        ELSE IF strcmpEq(CStr(buf, 0), T_STATUS) THEN [op |-> "STATUS", arg |-> 0]
        ELSE [op |-> "ERR CMD", arg |-> 0]

C15_ExecutedOnceInOrder ==
    /\ Len(executed) <= Len(script)
    /\ \A k \in 1..Len(executed) : executed[k] = Asked(script[k])
    /\ Settled => Len(executed) = Len(script)

\* C16 (as stated): with a master that waits for each execution, once the
\* commands written are executed stepperPos is the sum of the k of all the
\* STEPPER MOVE k so far (while that sum fits a 16-bit int), and every STATUS
\* answer reports, after STEPPER=, the sum of the k of the moves before it.
IntOfText(a) == IF a[1] = "-" THEN 0 - NatOf(Tail(a)) ELSE NatOf(a)

RECURSIVE StepSum(_, _)
StepSum(sq, n) ==
    IF n = 0 THEN 0
    ELSE StepSum(sq, n - 1)
           + (IF IsStepperMoveInt(sq[n])
              THEN IntOfText(SubSeq(sq[n], 14, Len(sq[n]))) ELSE 0)

FitsInt16(x) == 0 - 32768 <= x /\ x <= 32767

\* The text holds `field`, up to the end or to the blank before the marker.
ReportsField(text, field) ==
    \E i \in 1..Len(text) :
        /\ i + Len(field) - 1 <= Len(text)
        /\ SubSeq(text, i, i + Len(field) - 1) = field
        /\ (i + Len(field) - 1 = Len(text) \/ text[i + Len(field)] = " ")

C16_StepperSum ==
    /\ (Settled /\ FitsInt16(StepSum(script, Len(script)))) =>
          stepperPos = StepSum(script, Len(script))
    /\ \A k \in 1..Len(acks) :
          (script[k] = T_STATUS /\ FitsInt16(StepSum(script, k - 1))) =>
              ReportsField(FrameText(acks[k]),
                           F_STEPPER \o Dec(StepSum(script, k - 1)))

\* C17: no step of SensorTask changes lastClapMs; a round whose temperature
\* or humidity is invalid goes by without SensorTask taking the mutex or
\* writing any field, the light level read with it included; in a valid round
\* SensorTask writes under the mutex, and when it releases it temp, hum and
\* photo are the three readings of that round.
SensorStep == sensorPc' # sensorPc \/ reading' # reading

C17_SensorFrame ==
    [][SensorStep =>
          /\ data'.lastClapMs = data.lastClapMs
          /\ (sensorPc = "read" /\ (reading'.t = NaN \/ reading'.h = NaN)) =>
                (sensorPc' = "skip" /\ data' = data /\ dataMutex' = dataMutex)
          /\ sensorPc = "skip" =>
                (sensorPc' = "read" /\ data' = data /\ dataMutex' = dataMutex)
          /\ data' # data => (dataMutex = "sensor" /\ dataMutex' = "sensor")
          /\ sensorPc = "give" =>
                /\ dataMutex = "sensor"
                /\ data.temp = reading.t
                /\ data.hum = reading.h
                /\ data.photo = reading.p]_vars

\* C17 witness: after a valid round, a round with an invalid temperature and
\* the light level 77 is being skipped, and the record holds the first round.
C17_Witness ==
    /\ sensorPc = "skip"
    /\ reading.t = NaN
    /\ reading.p = 77
    /\ data.temp = 253
    /\ data.hum = 401
    /\ data.photo = 1023

\* C19 (as stated): whoever executes xSemaphoreTake(dataMutex), a task or
\* the I2C request callback, finds the mutex created.
C19_MutexCreatedFirst ==
    [][/\ (hi2cPc = "take" /\ hi2cPc' # "take") => dataMutex # "null"
       /\ (sensorPc = "take" /\ sensorPc' # "take") => dataMutex # "null"
       /\ (soundPc = "take" /\ soundPc' # "take") => dataMutex # "null"
       /\ (webPc = "take" /\ webPc' # "take") => dataMutex # "null"]_vars

\* C20 (as stated): every value stored in lastClapMs exceeds the value it
\* replaces by more than 250 ms, both read as unsigned long (ULess: a < b).
ULess(a, b) == IF (a >= 0) <=> (b >= 0) THEN a < b ELSE b < 0

Exceeds250(new, old) == ULess(old, new) /\ UGt(Sub32(new, old), 250)

C20_ClapsApart ==
    [][data'.lastClapMs # data.lastClapMs =>
          Exceeds250(data'.lastClapMs, data.lastClapMs)]_vars

\* C20 (amended): a clap is recorded more than 250 ms after the clap recorded
\* before it (after boot, for the first one).  The value stored in
\* lastClapMs exceeds the value it replaces by more than 250 ms when
\* millis() has not wrapped between the two claps; when it has wrapped once,
\* the new value is 2^32 ms later than it reads: either it is above the old
\* one, or it is more than 250 above it modulo 2^32.
C20_ClapsApartInTime ==
    [][(soundPc = "stamp" /\ soundPc' # "stamp") =>
          /\ clapEra' = clapEra =>
                Exceeds250(data'.lastClapMs, data.lastClapMs)
          /\ clapEra' = clapEra + 1 =>
                \/ ULess(data.lastClapMs, data'.lastClapMs)
                \/ UGt(Sub32(data'.lastClapMs, data.lastClapMs), 250)]_vars

\* C20 witness: a second clap has just been stored, a second and a half
\* after the first, with the microphone LOW at both polls and millis()
\* wrapped between the two: the value stored, 501, is below the one it
\* replaced, 2^32 - 999.
C20_Witness ==
    /\ soundPc = "give"
    /\ last_event = 0 - 999
    /\ clapEra = 1
    /\ data.lastClapMs = 501

\* C18: with a master that waits for each execution, servoPos changes only
\* while the command written last is a SERVO SET, stepperPos only while it is
\* a STEPPER MOVE, relayState only while it is RELAY ON or RELAY OFF, and none
\* of them under STATUS, under a text handleCommand does not recognise, or
\* before the first command; a read request leaves the three, the stored
\* response, the command buffer and cmdReady as they were, and btnEvent either
\* as it was or cleared.
C18_OwnTargetOnly ==
    [][/\ servoPos' # servoPos =>
             (script # <<>> /\ StartsWith(script[Len(script)], T_SERVO_SET))
       /\ stepperPos' # stepperPos =>
             (script # <<>> /\ StartsWith(script[Len(script)], T_STEPPER_MOVE))
       /\ relayState' # relayState =>
             (script # <<>> /\ script[Len(script)] \in {T_RELAY_ON, T_RELAY_OFF})
       /\ acks' # acks =>
             /\ servoPos' = servoPos
             /\ stepperPos' = stepperPos
             /\ relayState' = relayState
             /\ i2cResp' = i2cResp
             /\ i2cCmd' = i2cCmd
             /\ cmdReady' = cmdReady
             /\ lastState' = lastState
             /\ btnEvent' \in {btnEvent, FALSE}]_vars

\* C18 witness: SERVO SET 45 then RELAY ON, each read after its execution;
\* the second read has consumed a button event and the stored response is
\* still the acknowledgement of RELAY ON.
C18_Witness ==
    /\ script = <<ServoSetCmd(Dec(45)), T_RELAY_ON>>
    /\ Len(acks) = 2
    /\ servoPos = 45
    /\ stepperPos = 0
    /\ relayState = TRUE
    /\ HasMarker(acks[2])
    /\ ~btnEvent
    /\ CStr(i2cResp, 0) = T_OK_RELAY_ON

\* C5 (as stated): a read request that consumes a pending event returns the
\* current response text followed by the complete marker " +BTN PRESSED".
C5_MarkerComplete ==
    [][(onI2CRequest /\ btnEvent) =>
          FrameText(wire') = CStr(i2cResp, 0) \o T_BTN_PRESSED]_vars

\* C8 (as stated): while handleCommand executes a text that is not an accepted
\* command, servoPos, stepperPos and relayState keep their values and the only
\* response stored is ERR CMD; and the response read for it is ERR CMD.
C8_MalformedRejected ==
    [][/\ (InHandleCommand /\ ~IsAcceptedCmd(CStr(i2cCmd, 0))) =>
            /\ servoPos' = servoPos
            /\ stepperPos' = stepperPos
            /\ relayState' = relayState
            /\ i2cResp' # i2cResp => CStr(i2cResp', 0) = T_ERR_CMD
       /\ \A k \in 1..Len(acks') :
            ~IsAcceptedCmd(script'[k]) => IsAck(acks'[k], T_ERR_CMD)]_vars

\* C9: with a master that waits for each execution, every RELAY ON is
\* answered OK RELAY ON and every RELAY OFF is answered OK RELAY OFF, in the
\* order of the commands, and once the commands written are executed the relay
\* state is the one the last relay command asked for.
RelayCmds(sq) == {k \in 1..Len(sq) : sq[k] \in {T_RELAY_ON, T_RELAY_OFF}}

MaxOf(S) == CHOOSE x \in S : \A y \in S : y <= x

C9_RelayRoundTrip ==
    /\ \A k \in 1..Len(acks) :
          /\ script[k] = T_RELAY_ON => IsAck(acks[k], T_OK_RELAY_ON)
          /\ script[k] = T_RELAY_OFF => IsAck(acks[k], T_OK_RELAY_OFF)
    /\ (Settled /\ RelayCmds(script) # {}) =>
          relayState = (script[MaxOf(RelayCmds(script))] = T_RELAY_ON)

\* C9 witness: RELAY ON then RELAY OFF, each read after its execution.
C9_Witness ==
    /\ script = <<T_RELAY_ON, T_RELAY_OFF>>
    /\ Len(acks) = 2
    /\ FrameText(acks[1]) = T_OK_RELAY_ON
    /\ FrameText(acks[2]) = T_OK_RELAY_OFF
    /\ relayState = FALSE

\* C6 (as stated): when the reply is formatted, its C field is the whole
\* seconds between the last recorded clap and the request (the callback's
\* now) if that clap is less than 1000 s older than the request; it is -1
\* only if no clap was recorded or the last one is at least 1000 s old; and
\* it is never below -1.  Stated of the replies formatted in the first
\* 2^31 ms after boot, when now and lastClapMs are times since boot.
MaxOfSet(S) == CHOOSE x \in S : \A y \in S : y <= x

CField(buf) ==
    LET text == CStr(buf, 0)
        eq   == MaxOfSet({i \in 1..Len(text) : text[i] = "="})
        fld  == SubSeq(text, eq + 1, Len(text))
    IN  IF fld[1] = "-" THEN 0 - NatOf(Tail(fld)) ELSE NatOf(fld)

C6_ClapFieldExact ==
    (hi2cPc = "give" /\ wraps = 0 /\ clock >= 0) =>
        LET last == data.lastClapMs
        IN  /\ (last > 0 /\ last <= now /\ now - last < 1000000) =>
                  CField(hubResp) = (now - last) \div 1000
            /\ CField(hubResp) = 0 - 1 =>
                  (last = 0 \/ (last <= now /\ now - last >= 1000000))
            /\ CField(hubResp) >= 0 - 1

\* C7 (as stated): every frame a peer has written is I2C_BUF = 32 bytes
\* long, the actuator's as well as the sensor hub's.
C7_FramesAreFull ==
    /\ wire # <<>> => Len(wire) = I2C_BUF
    /\ hubWire # <<>> => Len(hubWire) = I2C_BUF

\* C10: a task is at an access to the shared record only while it holds
\* dataMutex, at most one task is inside its critical section, and what
\* handleStatus and the I2C callback have read, hold after their
\* xSemaphoreGive and send (server.send, Wire.write) is the temp, hum and
\* photo of one sample (or the record as it is before the first sample).
\* A task is inside its critical section from the return of its
\* xSemaphoreTake to its xSemaphoreGive, the step that has it at "give".
Tasks == {"sensor", "sound", "web", "i2c"}

InCritical(task) ==
    \/ task = "sensor" /\ sensorPc \in {"w_temp", "w_hum", "w_photo", "give"}
    \/ task = "sound" /\ soundPc \in {"stamp", "give"}
    \/ task = "web" /\ webPc \in {"read", "give"}
    \/ task = "i2c" /\ hi2cPc \in {"fmt", "give"}

OneSample(t, h, p) ==
    \/ t = 0 /\ h = 0 /\ p = 0
    \/ \E r \in Readings : ReadingValid(r) /\ t = r.t /\ h = r.h /\ p = r.p

ReplyOfOneSample(buf) ==
    \E r \in Readings \cup {NoReading} :
        /\ OneSample(r.t, r.h, r.p)
        /\ LET head == F_T \o Fmt1(r.t) \o F_H \o Fmt1(r.h)
                            \o F_P \o Dec(r.p) \o F_C
           IN  SubSeq(buf, 1, Len(head)) = head

C10_MutexGuardsRecord ==
    /\ \A task \in Tasks : InCritical(task) => dataMutex = task
    /\ \A a, b \in Tasks : (InCritical(a) /\ InCritical(b)) => a = b
    /\ webPc \in {"give", "send"} => OneSample(json.temp, json.hum, json.photo)
    /\ hi2cPc \in {"give", "write"} => ReplyOfOneSample(hubResp)
    /\ hubWire # <<>> => ReplyOfOneSample(hubWire)

\* C10 witness: SensorTask holds the mutex half-way through storing the
\* first sample over the second (temp stored, hum and photo not yet), with
\* SoundTask waiting to take it, while handleStatus is sending and the I2C
\* callback has written what they read before: the second sample, of half
\* a degree below zero, whole.
C10_Witness ==
    /\ dataMutex = "sensor"
    /\ sensorPc = "w_hum"
    /\ soundPc = "take"
    /\ data.temp = 253 /\ data.hum = 550 /\ data.photo = 4095
    /\ webPc = "send"
    /\ json.temp = 0 - 5 /\ json.hum = 550 /\ json.photo = 4095
    /\ hi2cPc = "idle"
    /\ hubWire # <<>>
    /\ StartsWith(CStr(hubWire, 0),
                  <<"T", "=", "-", "0", ".", "5", " ", "H", "=", "5", "5", ".", "0">>)

\* C21 (as stated): whoever holds dataMutex is inside its critical section,
\* at most four steps from its xSemaphoreGive, and can take its next step
\* without waiting for anyone, a step that leaves it one step nearer and
\* that frees the mutex exactly when it is the last; whoever waits at
\* xSemaphoreTake for the mutex either can take it now or waits for such a
\* holder; and the hub always has a step to take.
StepsToGive(task) ==
    IF task = "sensor"
    THEN (IF sensorPc = "w_temp" THEN 4 ELSE IF sensorPc = "w_hum" THEN 3
          ELSE IF sensorPc = "w_photo" THEN 2 ELSE IF sensorPc = "give" THEN 1
          ELSE 0)
    ELSE IF task = "sound"
    THEN (IF soundPc = "stamp" THEN 2 ELSE IF soundPc = "give" THEN 1 ELSE 0)
    ELSE IF task = "web"
    THEN (IF webPc = "read" THEN 2 ELSE IF webPc = "give" THEN 1 ELSE 0)
    ELSE (IF hi2cPc = "fmt" THEN 2 ELSE IF hi2cPc = "give" THEN 1 ELSE 0)

\* The step leaves `task` one step nearer to its give, the mutex free if it
\* was the give and with `task` if not.
NearsGive(task) ==
    /\ StepsToGive(task)' = StepsToGive(task) - 1
    /\ dataMutex' = (IF StepsToGive(task) = 1 THEN "free" ELSE task)

HolderCanStep ==
    /\ \A task \in Tasks : dataMutex = task => StepsToGive(task) \in 1..4
    /\ dataMutex = "sensor" =>
          ENABLED ((SensorWriteTemp \/ SensorWriteHum \/ SensorWritePhoto \/ SensorGive)
                      /\ NearsGive("sensor"))
    /\ dataMutex = "sound" => ENABLED ((SoundStamp \/ SoundGive) /\ NearsGive("sound"))
    /\ dataMutex = "web" => ENABLED ((WebRead \/ WebGive) /\ NearsGive("web"))
    /\ dataMutex = "i2c" => ENABLED ((HubFormat \/ HubGive) /\ NearsGive("i2c"))

TakerCanHope ==
    /\ sensorPc = "take" => (ENABLED SensorTake \/ dataMutex \in Tasks)
    /\ soundPc = "take" => (ENABLED SoundTake \/ dataMutex \in Tasks)
    /\ webPc = "take" => (ENABLED WebTake \/ dataMutex \in Tasks)
    /\ (hi2cPc = "take" /\ dataMutex # "null") =>
          (ENABLED HubTake \/ dataMutex \in Tasks)

HubCanStep ==
    ENABLED (setup \/ SensorTask \/ SoundTask \/ handleStatus \/ HubOnI2CRequest)

C21_NoTakerStuck ==
    /\ HolderCanStep
    /\ TakerCanHope
    /\ HubCanStep

\* C21 witness: SoundTask is one step from its xSemaphoreGive while
\* SensorTask, handleStatus and the I2C callback wait at xSemaphoreTake.
C21_Witness ==
    /\ dataMutex = "sound"
    /\ soundPc = "give"
    /\ sensorPc = "take"
    /\ webPc = "take"
    /\ hi2cPc = "take"

====
